---------------------------- MODULE Spec2Model ----------------------------
(***************************************************************************)
(* Model of the immediate-aggregation backtester                          *)
(* (src/python/immediateAggregationBacktester.py): candle aggregation,    *)
(* pivot detection, cascade confirmation windows and the trade lifecycle  *)
(* driven by run_immediate_aggregation_backtest.                          *)
(*                                                                         *)
(* Time is counted in units of 30 000 ms: every millisecond constant of   *)
(* the source (60*1000, 30*1000, 5*60*1000) is a multiple of it.          *)
(* Prices and money are integers; the inputs are chosen so that every     *)
(* division the source performs on them is exact.                         *)
(* Python's 0-based indices are kept as parameters and fields; sequences  *)
(* are 1-based, so candles[index] of the source is candles[index + 1].    *)
(***************************************************************************)
EXTENDS Integers, Sequences, FiniteSets, TLC

\* ----------------------------------------------------------------- bounds
\* number of one-minute slots of the base series
NumTicks == 8

\* -------------------------------------------------------------- constants
\* 60 * 1000 ms
MinuteMs == 2

\* thirty_sec = 30 * 1000 ms
ThirtySecMs == 1

\* the 5 of proximity_window_ms = 5 * 60 * 1000
ProximityMinutes == 5

\* Python's None for an optional number (all real values are >= 0)
None == 0 - 1

\* a raised ValueError, as a value of parse_timeframe_to_minutes
ValueError == 0 - 2

Abs(x) == IF x < 0 THEN 0 - x ELSE x

Min2(a, b) == IF a <= b THEN a ELSE b

Max2(a, b) == IF a >= b THEN a ELSE b

RECURSIVE SetMax(_)
SetMax(S) == LET x == CHOOSE y \in S : TRUE
             IN  IF S = {x} THEN x ELSE Max2(x, SetMax(S \ {x}))

RECURSIVE SetMin(_)
SetMin(S) == LET x == CHOOSE y \in S : TRUE
             IN  IF S = {x} THEN x ELSE Min2(x, SetMin(S \ {x}))

RECURSIVE SeqSum(_)
SeqSum(s) == IF s = <<>> THEN 0 ELSE Head(s) + SeqSum(Tail(s))

\* sorted(xs, key=lambda x: x.time): a stable insertion sort by time
RECURSIVE InsertByTime(_, _)
InsertByTime(c, s) ==
    IF s = <<>> THEN <<c>>
    ELSE IF c.time < Head(s).time THEN <<c>> \o s
    ELSE <<Head(s)>> \o InsertByTime(c, Tail(s))

RECURSIVE SortByTime(_)
SortByTime(s) ==
    IF s = <<>> THEN <<>>
    ELSE LET n == Len(s)
         IN  InsertByTime(s[n], SortByTime(SubSeq(s, 1, n - 1)))

\* sorted(candle_groups.keys())
RECURSIVE SortedSeqOfSet(_)
SortedSeqOfSet(S) ==
    IF S = {} THEN <<>>
    ELSE LET m == SetMin(S) IN <<m>> \o SortedSeqOfSet(S \ {m})

\* ------------------------------------------------------ timeframe strings
\* A timeframe string is a sequence of one-character strings.
DigitValue(ch) ==
    CASE ch = "0" -> 0 [] ch = "1" -> 1 [] ch = "2" -> 2 [] ch = "3" -> 3
      [] ch = "4" -> 4 [] ch = "5" -> 5 [] ch = "6" -> 6 [] ch = "7" -> 7
      [] ch = "8" -> 8 [] ch = "9" -> 9 [] OTHER -> None

\* int(s) on a string of decimal digits; ValueError otherwise
RECURSIVE IntOf(_)
IntOf(s) ==
    IF s = <<>> THEN ValueError
    ELSE LET n == Len(s)
             d == DigitValue(s[n])
         IN  IF d = None THEN ValueError
             ELSE IF n = 1 THEN d
             ELSE LET r == IntOf(SubSeq(s, 1, n - 1))
                  IN  IF r = ValueError THEN ValueError ELSE 10 * r + d

\* parse_timeframe_to_minutes: the module's second definition of that name,
\* which replaces the first one when the module is loaded
parse_timeframe_to_minutes(timeframe) ==
    LET n == Len(timeframe)
        suffix == IF n = 0 THEN "" ELSE timeframe[n]
        num == IF n = 0 THEN ValueError ELSE IntOf(SubSeq(timeframe, 1, n - 1))
    IN  IF suffix \notin {"m", "h", "d", "w"} \/ num = ValueError THEN ValueError
        ELSE CASE suffix = "m" -> num
               [] suffix = "h" -> num * 60
               [] suffix = "d" -> num * 24 * 60
               [] suffix = "w" -> num * 7 * 24 * 60

\* ------------------------------------------------------------ aggregation
Candle(t, o, h, l, c, v) ==
    [time |-> t, open |-> o, high |-> h, low |-> l, close |-> c, volume |-> v]

\* mutation of WindowStart: every candle is a bucket of its own
WindowStartPerCandle(t, interval_ms) == t

\* window_start = (candle.time // interval_ms) * interval_ms
WindowStart(t, interval_ms) == (t \div interval_ms) * interval_ms

\* aggregate_candles raises ValueError: the interval does not parse, or is <= 0
AggregateRaises(target_interval) ==
    parse_timeframe_to_minutes(target_interval) <= 0

\* what a raised error leaves in place of a series
Raised == <<"ValueError">>

\* mutation of aggregate_candles: a bucket without candles between the first and
\* the last bucket gets a synthetic candle of volume 0
aggregate_candles_gap_filled(one_minute_candles, target_interval) ==
    LET interval_minutes == parse_timeframe_to_minutes(target_interval)
        interval_ms == interval_minutes * MinuteMs
        keys == {WindowStart(one_minute_candles[n].time, interval_ms) :
                     n \in 1..Len(one_minute_candles)}
        filled == {k * interval_ms :
                       k \in (SetMin(keys) \div interval_ms)..(SetMax(keys) \div interval_ms)}
        InWindow(ws) == SelectSeq(one_minute_candles,
                            LAMBDA c : WindowStart(c.time, interval_ms) = ws)
        Agg(ws) == LET sorted_candles == SortByTime(InWindow(ws))
                   IN  IF sorted_candles = <<>> THEN Candle(ws + interval_ms, 0, 0, 0, 0, 0)
                       ELSE Candle(ws + interval_ms,
                              sorted_candles[1].open,
                              SetMax({sorted_candles[n].high : n \in 1..Len(sorted_candles)}),
                              SetMin({sorted_candles[n].low : n \in 1..Len(sorted_candles)}),
                              sorted_candles[Len(sorted_candles)].close,
                              SeqSum([n \in 1..Len(sorted_candles) |-> sorted_candles[n].volume]))
        ks == SortedSeqOfSet(filled)
    IN  IF AggregateRaises(target_interval) THEN Raised
        ELSE SortByTime([n \in 1..Len(ks) |-> Agg(ks[n])])

aggregate_candles(one_minute_candles, target_interval) ==
    LET interval_minutes == parse_timeframe_to_minutes(target_interval)
        interval_ms == interval_minutes * MinuteMs
        keys == {WindowStart(one_minute_candles[n].time, interval_ms) :
                     n \in 1..Len(one_minute_candles)}
        InWindow(ws) == SelectSeq(one_minute_candles,
                            LAMBDA c : WindowStart(c.time, interval_ms) = ws)
        Agg(ws) == LET sorted_candles == SortByTime(InWindow(ws))
                   IN  Candle(ws + interval_ms,
                              sorted_candles[1].open,
                              SetMax({sorted_candles[n].high : n \in 1..Len(sorted_candles)}),
                              SetMin({sorted_candles[n].low : n \in 1..Len(sorted_candles)}),
                              sorted_candles[Len(sorted_candles)].close,
                              SeqSum([n \in 1..Len(sorted_candles) |-> sorted_candles[n].volume]))
        ks == SortedSeqOfSet(keys)
    IN  IF AggregateRaises(target_interval) THEN Raised
        ELSE SortByTime([n \in 1..Len(ks) |-> Agg(ks[n])])

\* -------------------------------------------------------- pivot detection
NoPivot == [type |-> "none"]

\* mutation of HighWinsTie: equal excursions give a low pivot
HighWinsTieStrict(up_excursion, down_excursion) == up_excursion > down_excursion

\* "if up_excursion >= down_excursion: is_low_pivot = False" (lookback 0, both
\* directions qualify)
HighWinsTie(up_excursion, down_excursion) == up_excursion >= down_excursion

\* mutation of compare_price: the swing is measured against the same field the
\* pivot test compares
compare_price_same_side(compare_candle, mode, pivot_type) ==
    IF mode = "close" THEN compare_candle.close
    ELSE IF pivot_type = "high" THEN compare_candle.high ELSE compare_candle.low

\* compare_price of the swing calculation
compare_price(compare_candle, mode, pivot_type) ==
    IF mode = "close" THEN compare_candle.close
    ELSE IF pivot_type = "high" THEN compare_candle.low ELSE compare_candle.high

\* detect_pivot(candles, index, config); index is 0-based as in the source.
\* swing_pct holds the integer part of the maximum swing percentage.
detect_pivot(candles, index, config) ==
    LET pivot_lookback == config.pivotLookback
        min_swing_pct == config.minSwingPct
        mode == config.pivot_detection_mode
        High(c) == IF mode = "close" THEN c.close ELSE c.high
        Low(c) == IF mode = "close" THEN c.close ELSE c.low
        current_candle == candles[index + 1]
        current_high == High(current_candle)
        current_low == Low(current_candle)
        prev == candles[index]
        loop_high == \A j \in 1..pivot_lookback :
                         index - j >= 0 /\ current_high > High(candles[index - j + 1])
        loop_low == \A j \in 1..pivot_lookback :
                        index - j >= 0 /\ current_low < Low(candles[index - j + 1])
        up0 == current_high > High(prev)
        down0 == current_low < Low(prev)
        up_excursion == Abs(current_high - High(prev))
        down_excursion == Abs(Low(prev) - current_low)
        is_high_pivot == IF pivot_lookback > 0 THEN loop_high
                         ELSE up0 /\ (down0 => HighWinsTie(up_excursion, down_excursion))
        is_low_pivot == IF pivot_lookback > 0 THEN loop_low
                        ELSE down0 /\ (up0 => ~HighWinsTie(up_excursion, down_excursion))
        pivot_type == IF is_high_pivot THEN "high" ELSE "low"
        pivot_price == IF is_high_pivot THEN current_high ELSE current_low
        upper == IF pivot_lookback = 0 THEN 1 ELSE pivot_lookback
        ComparePrice(c) == compare_price(c, mode, pivot_type)
        compared == {j \in 1..upper : index - j >= 0}
        \* max_swing_pct < min_swing_pct, without the division
        swing_too_small == \A j \in compared :
            Abs(pivot_price - ComparePrice(candles[index - j + 1])) * 100
                < min_swing_pct * ComparePrice(candles[index - j + 1])
        max_swing_pct ==
            IF min_swing_pct > 0 /\ compared # {}
            THEN SetMax({(Abs(pivot_price - ComparePrice(candles[index - j + 1])) * 100)
                             \div ComparePrice(candles[index - j + 1]) : j \in compared})
            ELSE 0
    IN  IF pivot_lookback = 0 /\ index = 0 THEN NoPivot
        ELSE IF index < pivot_lookback \/ index >= Len(candles) THEN NoPivot
        ELSE IF ~is_high_pivot /\ ~is_low_pivot THEN NoPivot
        ELSE IF min_swing_pct > 0 /\ swing_too_small THEN NoPivot
        ELSE [type |-> pivot_type, price |-> pivot_price,
              time |-> current_candle.time, index |-> index,
              signal |-> IF pivot_type = "high" THEN "short" ELSE "long",
              swing_pct |-> max_swing_pct, timeframe |-> <<>>]


DetectedPivots(candles, tf_name, pivot_config) ==
    LET found == [n \in 1..Len(candles) |->
                     LET p == detect_pivot(candles, n - 1, pivot_config)
                     IN  IF p = NoPivot THEN NoPivot
                         ELSE [p EXCEPT !.timeframe = tf_name]]
    IN  SelectSeq(found, LAMBDA p : p # NoPivot)

\* ------------------------------------------------------------- funding
\* Rates and percentages that the configuration gives as fractions are held
\* in ten-thousandths: funding_rate 0.0001 is 1, total_maker_fee 0.1 is 1000.
RateScale == 100 * 100

\* funding_time_key of apply_funding_rates; the interval is in time units
FundingTimeKey(current_time, trade_config) ==
    (current_time \div trade_config.funding_interval) * trade_config.funding_interval

\* mutation of FundingCharged: the interval key is not looked up
FundingChargedEveryCall(current_time, open_trade_sizes, applied, trade_config) ==
    /\ open_trade_sizes # <<>>
    /\ trade_config.funding_rate # 0

FundingCharged(current_time, open_trade_sizes, applied, trade_config) ==
    /\ open_trade_sizes # <<>>
    /\ trade_config.funding_rate # 0
    /\ FundingTimeKey(current_time, trade_config) \notin applied

\* apply_funding_rates: the new capital and the new applied_funding_rates
apply_funding_rates(current_time, open_trade_sizes, cap, applied, trade_config) ==
    IF FundingCharged(current_time, open_trade_sizes, applied, trade_config)
    THEN [capital |-> cap - SeqSum([n \in 1..Len(open_trade_sizes) |->
                          (open_trade_sizes[n] * trade_config.funding_rate) \div RateScale]),
          applied |-> applied \cup {FundingTimeKey(current_time, trade_config)}]
    ELSE [capital |-> cap, applied |-> applied]

\* ------------------------------------------------------ trade management
\* Trade.__post_init__ applied to the fields create_trade passes
NewTrade(id, trade_type, timeframe, entry_price, entry_time, trade_size, take_profit_price, stop_loss_price, leverage, pivot) ==
    [id |-> id, type |-> trade_type, timeframe |-> timeframe,
     entry_price |-> entry_price, entry_time |-> entry_time,
     trade_size |-> trade_size, take_profit_price |-> take_profit_price,
     stop_loss_price |-> stop_loss_price, leverage |-> leverage,
     status |-> "open", exit_price |-> None, exit_time |-> None,
     exit_reason |-> "", pnl |-> 0, pnl_pct |-> 0, pivot |-> pivot,
     best_price |-> entry_price,
     original_take_profit_price |-> take_profit_price,
     original_stop_loss_price |-> stop_loss_price]

create_trade(id, trade_type, pivot, trade_size, entry_time, timeframe, config) ==
    LET entry_price == pivot.price
        tp_distance == (entry_price * config.take_profit) \div 100
        sl_distance == (entry_price * config.stop_loss) \div 100
    IN  IF trade_type = "long"
        THEN NewTrade(id, trade_type, timeframe, entry_price, entry_time, trade_size,
                      entry_price + tp_distance, entry_price - sl_distance,
                      config.leverage, pivot)
        ELSE NewTrade(id, trade_type, timeframe, entry_price, entry_time, trade_size,
                      entry_price - tp_distance, entry_price + sl_distance,
                      config.leverage, pivot)

\* mutation of ExitReason: a close equal to a trigger price does not close
ExitReasonStrict(trade, current_price) ==
    IF trade.type = "long"
    THEN IF current_price > trade.take_profit_price THEN "TP"
         ELSE IF current_price < trade.stop_loss_price THEN "SL" ELSE ""
    ELSE IF current_price < trade.take_profit_price THEN "TP"
         ELSE IF current_price > trade.stop_loss_price THEN "SL" ELSE ""

\* the exit test of update_trade: "TP", "SL" or "" (stay open)
ExitReason(trade, current_price) ==
    IF trade.type = "long"
    THEN IF current_price >= trade.take_profit_price THEN "TP"
         ELSE IF current_price <= trade.stop_loss_price THEN "SL" ELSE ""
    ELSE IF current_price <= trade.take_profit_price THEN "TP"
         ELSE IF current_price >= trade.stop_loss_price THEN "SL" ELSE ""

\* mutation of ClosedPnl: slippage is deducted whether or not it is simulated
ClosedPnlSlippageAlways(trade, exit_price, exit_time, config) ==
    LET price_change == IF trade.type = "long" THEN exit_price - trade.entry_price
                        ELSE trade.entry_price - exit_price
        gross == (price_change * trade.trade_size * trade.leverage) \div trade.entry_price
        total_fees == (trade.trade_size * config.total_maker_fee * 2) \div (100 * RateScale)
        slippage_amount == (trade.trade_size * config.slippage_percentage)
                               \div (100 * RateScale)
        funding_periods == (exit_time - trade.entry_time) \div (8 * 60 * MinuteMs)
        funding_cost == IF config.simulate_funding /\ funding_periods > 0
                        THEN (trade.trade_size * config.funding_rate * funding_periods)
                                 \div (100 * RateScale)
                        ELSE 0
    IN  gross - slippage_amount - funding_cost - total_fees

\* the P&L update_trade assigns on close
ClosedPnl(trade, exit_price, exit_time, config) ==
    LET price_change == IF trade.type = "long" THEN exit_price - trade.entry_price
                        ELSE trade.entry_price - exit_price
        gross == (price_change * trade.trade_size * trade.leverage) \div trade.entry_price
        total_fees == (trade.trade_size * config.total_maker_fee * 2) \div (100 * RateScale)
        slippage_amount == IF config.simulate_slippage
                           THEN (trade.trade_size * config.slippage_percentage)
                                    \div (100 * RateScale)
                           ELSE 0
        \* int(trade_duration_hours / 8): whole 8-hour periods held
        funding_periods == (exit_time - trade.entry_time) \div (8 * 60 * MinuteMs)
        funding_cost == IF config.simulate_funding /\ funding_periods > 0
                        THEN (trade.trade_size * config.funding_rate * funding_periods)
                                 \div (100 * RateScale)
                        ELSE 0
    IN  gross - slippage_amount - funding_cost - total_fees

\* update_trade: the trade after the update; it closed iff its status is "closed"
update_trade(trade, current_candle, config) ==
    LET current_price == current_candle.close
        is_long == trade.type = "long"
        best == IF is_long
                THEN IF current_price > trade.best_price THEN current_price
                     ELSE trade.best_price
                ELSE IF current_price < trade.best_price THEN current_price
                     ELSE trade.best_price
        exit_reason == ExitReason(trade, current_price)
        price_change == IF is_long THEN current_price - trade.entry_price
                        ELSE trade.entry_price - current_price
    IN  IF exit_reason = "" THEN [trade EXCEPT !.best_price = best]
        ELSE [trade EXCEPT
                 !.best_price = best,
                 !.status = "closed",
                 !.exit_price = current_price,
                 !.exit_time = current_candle.time,
                 !.exit_reason = exit_reason,
                 !.pnl = ClosedPnl(trade, current_price, current_candle.time, config),
                 !.pnl_pct = (price_change * 100 * trade.leverage) \div trade.entry_price]

calculate_trade_size(cap, config) ==
    LET sizing_mode == config.position_sizing_mode
        calculated == (cap * config.risk_per_trade) \div 100
    IN  CASE sizing_mode = "fixed" -> config.amount_per_trade
          [] sizing_mode = "percent" -> calculated
          [] sizing_mode = "minimum" -> Max2(calculated, config.minimum_trade_amount)
          [] OTHER -> config.amount_per_trade

\* mutation of apply_direction_filter: every signal is traded as it is
apply_direction_filter_unfiltered(pivot, config) == <<TRUE, pivot.signal>>

\* apply_direction_filter: <<should_open_trade, trade_type>>
apply_direction_filter(pivot, config) ==
    LET direction == config.direction
        signal == pivot.signal
    IN  IF signal = "long" /\ direction \in {"buy", "both"} THEN <<TRUE, "long">>
        ELSE IF signal = "long" /\ direction = "alternate" THEN <<TRUE, "short">>
        ELSE IF signal = "short" /\ direction \in {"sell", "both"} THEN <<TRUE, "short">>
        ELSE IF signal = "short" /\ direction = "alternate" THEN <<TRUE, "long">>
        ELSE <<FALSE, "">>

\* -------------------------------------------------- cascade confirmation
\* dict.get(key): None when the key is absent
Get(dict, key) == IF key \in DOMAIN dict THEN dict[key] ELSE None

\* effective_window_ms of check_cascade_confirmation (cascade_settings key)
SearchWindowMs(primary_interval, config) ==
    LET proximity_window_ms == ProximityMinutes * MinuteMs
        configured_minutes == Get(config.cascade_settings.confirmation_window,
                                  primary_interval)
    IN  IF configured_minutes # None
        THEN Min2(proximity_window_ms, configured_minutes * MinuteMs)
        ELSE proximity_window_ms

\* target_signal of check_cascade_confirmation: the conditional expression
\* 'short' if signal == 'long' else ('long' if opposite else signal)
TargetSignal(primary_signal, opposite) ==
    IF primary_signal = "long" THEN "short"
    ELSE IF opposite THEN "long" ELSE primary_signal

\* mutation of RecentPivots: pivots later than as_of_time are accepted
RecentPivotsAnyTime(pivots, target_signal, primary_pivot, effective_window_ms, as_of_time) ==
    SelectSeq(pivots, LAMBDA p :
        /\ p.signal = target_signal
        /\ Abs(p.time - primary_pivot.time) <= effective_window_ms)

RecentPivots(pivots, target_signal, primary_pivot, effective_window_ms, as_of_time) ==
    SelectSeq(pivots, LAMBDA p :
        /\ p.signal = target_signal
        /\ Abs(p.time - primary_pivot.time) <= effective_window_ms
        /\ p.time <= as_of_time)

\* mutation of check_cascade_confirmation: the latest matching pivot of a
\* timeframe confirms (recent_pivots[-1])
check_cascade_confirmation_latest(primary_pivot, all_timeframe_pivots, as_of_time, primary_interval, config) ==
    LET effective_window_ms == SearchWindowMs(primary_interval, config)
        tfs == config.timeframes
        Recent(tf_config) ==
            LET pivots == IF tf_config.interval \in DOMAIN all_timeframe_pivots
                          THEN all_timeframe_pivots[tf_config.interval] ELSE <<>>
            IN  RecentPivots(pivots,
                             TargetSignal(primary_pivot.signal, tf_config.opposite),
                             primary_pivot, effective_window_ms, as_of_time)
        hits == SelectSeq(tfs, LAMBDA tf_config : Recent(tf_config) # <<>>)
    IN  [n \in 1..Len(hits) |->
            [timeframe |-> hits[n].interval, role |-> hits[n].role,
             weight |-> hits[n].weight,
             pivot |-> Recent(hits[n])[Len(Recent(hits[n]))],
             inverted |-> hits[n].opposite]]

check_cascade_confirmation(primary_pivot, all_timeframe_pivots, as_of_time, primary_interval, config) ==
    LET effective_window_ms == SearchWindowMs(primary_interval, config)
        tfs == config.timeframes
        Recent(tf_config) ==
            LET pivots == IF tf_config.interval \in DOMAIN all_timeframe_pivots
                          THEN all_timeframe_pivots[tf_config.interval] ELSE <<>>
            IN  RecentPivots(pivots,
                             TargetSignal(primary_pivot.signal, tf_config.opposite),
                             primary_pivot, effective_window_ms, as_of_time)
        hits == SelectSeq(tfs, LAMBDA tf_config : Recent(tf_config) # <<>>)
    IN  [n \in 1..Len(hits) |->
            [timeframe |-> hits[n].interval, role |-> hits[n].role,
             weight |-> hits[n].weight, pivot |-> Recent(hits[n])[1],
             inverted |-> hits[n].opposite]]

\* mutation of meets_execution_requirements: require_primary_timeframe is ignored
meets_execution_requirements_count_only(confirmations, config) ==
    ~(Len(confirmations) < config.cascade_settings.min_timeframes_required)

meets_execution_requirements(confirmations, config) ==
    LET min_required == config.cascade_settings.min_timeframes_required
        require_primary == config.cascade_settings.require_primary_timeframe
    IN  /\ ~(Len(confirmations) < min_required)
        /\ require_primary =>
               \E n \in 1..Len(confirmations) : confirmations[n].role = "primary"


\* ------------------------------------------------------------------ state
VARIABLES
    main_config,            \* main_config of load_config
    trade_config,           \* trade_config of load_config
    multi_pivot_config,     \* multi_pivot_config of load_config
    one_minute_candles,     \* the base series load_1m_candles returned
    timeframe_data,         \* interval -> candles
    timeframe_pivots,       \* interval -> pivots
    primary_tf_name,        \* interval of the primary timeframe
    pc,                     \* position in run_immediate_aggregation_backtest
    i,                      \* index of the primary candle being processed
    minute_candles_in_range,
    m,                      \* next position in minute_candles_in_range
    capital,
    open_trades,            \* references (positions in all_trades) of the open trades
    all_trades,             \* the trade objects, in the order they were created
    pending_windows,
    applied_funding_rates,
    confirmed_signals,
    executed_trades,
    total_signals,
    log,                    \* history: the effects applied so far, in order
    evals,                  \* history: the window evaluations of the last minute
    funding_calls,          \* history: the calls of apply_funding_rates
    last_tick               \* history: time of the last minute candle processed

vars == <<main_config, trade_config, multi_pivot_config, one_minute_candles,
          timeframe_data, timeframe_pivots, primary_tf_name, pc, i,
          minute_candles_in_range, m, capital, open_trades, all_trades,
          pending_windows, applied_funding_rates, confirmed_signals,
          executed_trades, total_signals, log, evals, funding_calls, last_tick>>

config_vars == <<main_config, trade_config, multi_pivot_config, one_minute_candles>>

TF1m == <<"1", "m">>

TF2m == <<"2", "m">>

\* BACKTEST_CONFIG['trading_mode']
trading_mode == "cascade"

RemoveAt(s, n) == SubSeq(s, 1, n - 1) \o SubSeq(s, n + 1, Len(s))

\* -------------------------------------------------- window evaluation
\* mutation of LoopWindowMs: the expiry window is twice the proximity bound
LoopWindowMsDoubled(primary_interval, config) ==
    2 * ProximityMinutes * MinuteMs

\* effective_window_ms of the main loop (cascadeSettings key; 0 and None
\* both count as "not configured")
LoopWindowMs(primary_interval, config) ==
    LET proximity_window_ms == ProximityMinutes * MinuteMs
        configured_minutes == Get(config.cascadeSettings.confirmationWindow,
                                  primary_interval)
        configured_window_ms == IF configured_minutes # None /\ configured_minutes # 0
                                THEN configured_minutes * MinuteMs ELSE None
    IN  IF configured_window_ms # None /\ configured_window_ms # 0
        THEN Min2(proximity_window_ms, configured_window_ms)
        ELSE proximity_window_ms

\* minute_candle.time > window_end
WindowExpired(tick_time, window_end) == tick_time > window_end

\* mutation of EntryPriceOverride: the price is looked up one minute after the
\* delayed entry time
EntryPriceOverrideNextMinute(candles, actual_entry_time) ==
    LET exact == {n \in 1..Len(candles) : candles[n].time = actual_entry_time + MinuteMs}
        near == {n \in 1..Len(candles) :
                     Abs(candles[n].time - (actual_entry_time + MinuteMs)) <= ThirtySecMs}
        Dist(n) == Abs(candles[n].time - (actual_entry_time + MinuteMs))
        best == {n \in near : \A k \in near : Dist(n) <= Dist(k)}
    IN  IF exact # {} THEN candles[SetMax(exact)].close
        ELSE IF near # {} THEN candles[SetMin(best)].close
        ELSE None

\* entry_price_override: the close at the delayed entry time, else the close
\* of the nearest base candle within thirty seconds, else None
EntryPriceOverride(candles, actual_entry_time) ==
    LET exact == {n \in 1..Len(candles) : candles[n].time = actual_entry_time}
        near == {n \in 1..Len(candles) :
                     Abs(candles[n].time - actual_entry_time) <= ThirtySecMs}
        Dist(n) == Abs(candles[n].time - actual_entry_time)
        best == {n \in near : \A k \in near : Dist(n) <= Dist(k)}
    IN  IF exact # {} THEN candles[SetMax(exact)].close
        ELSE IF near # {} THEN candles[SetMin(best)].close
        ELSE None

\* mutation of MaxTrades: single_trade_mode is ignored
MaxTradesConfigured(config) == config.max_concurrent_trades

\* max_trades
MaxTrades(config) ==
    IF config.single_trade_mode THEN 1 ELSE config.max_concurrent_trades

\* a history entry: the effect, the timestamp it was applied for, the primary
\* pivot (by time) it belongs to, and the number of open trades just before it
Effect(kind, time, pivot_time, open_before) ==
    [kind |-> kind, time |-> time, pivot |-> pivot_time, open |-> open_before]

\* mutation of KeepUnresolved: a window without an entry price is discarded
KeepUnresolvedDiscarded(windows, w) == RemoveAt(windows, w)

\* "continue" of line 825: a confirmed window without an entry price is left
\* in pending_windows
KeepUnresolved(windows, w) == windows

\* mutation of PopExecuted: the executed window is left in the pending list
PopExecutedKept(windows, w) == windows

\* pending_windows.pop(w) after a window met its requirements (line 852)
PopExecuted(windows, w) == RemoveAt(windows, w)

\* a blocked window that stays pending and is evaluated again at the next candle
BlockedKept(st, w, tick_time, pivot_time) ==
    [st EXCEPT !.log = Append(@, Effect("drop", tick_time, pivot_time,
                                        Len(st.open_trades)))]

\* a blocked window that is counted as a confirmed signal
BlockedCounted(st, w, tick_time, pivot_time) ==
    [st EXCEPT !.confirmed_signals = @ + 1,
               !.pending_windows = PopExecuted(@, w),
               !.log = Append(@, Effect("drop", tick_time, pivot_time,
                                        Len(st.open_trades)))]

\* a window that met its requirements and resolved a price, but is rejected by
\* the direction filter or finds no free slot (lines 827-852): no trade is
\* opened, no counter moves, and pending_windows.pop(w) still runs
Blocked(st, w, tick_time, pivot_time) ==
    [st EXCEPT !.pending_windows = PopExecuted(@, w),
               !.log = Append(@, Effect("drop", tick_time, pivot_time,
                                        Len(st.open_trades)))]

\* the body of the loop over pending_windows for window w at one minute candle;
\* st holds the variables the loop changes
EvalWindow(st, w, minute_candle) ==
    LET win == st.pending_windows[w]
        pp == win.primary_pivot
        primary_interval == primary_tf_name
        window_end == pp.time + LoopWindowMs(primary_interval, multi_pivot_config)
        confirmations == check_cascade_confirmation(pp, timeframe_pivots,
                             minute_candle.time, primary_interval, multi_pivot_config)
        last_conf_time == SetMax({confirmations[n].pivot.time :
                                      n \in 1..Len(confirmations)})
        execution_time == Max2(pp.time, last_conf_time)
        delay_ms == trade_config.entry_delay_minutes * MinuteMs
        actual_entry_time == execution_time + delay_ms
        entry_price_override == EntryPriceOverride(one_minute_candles, actual_entry_time)
        filter == apply_direction_filter(pp, trade_config)
        trade_size == calculate_trade_size(st.capital, trade_config)
        trade == [create_trade(Len(st.all_trades) + 1, filter[2], pp, trade_size,
                               actual_entry_time, primary_tf_name, trade_config)
                     EXCEPT !.entry_price = entry_price_override]
        met == meets_execution_requirements(confirmations, multi_pivot_config)
        seen == [primary |-> pp, at |-> minute_candle.time, window_end |-> window_end,
                 search_window |-> SearchWindowMs(primary_interval, multi_pivot_config),
                 confirmations |-> confirmations, met |-> met,
                 price |-> IF met THEN entry_price_override ELSE None]
        st1 == [st EXCEPT !.evals = Append(@, seen)]
    IN  IF WindowExpired(minute_candle.time, window_end)
        THEN [st EXCEPT !.pending_windows = RemoveAt(@, w),
                        !.log = Append(@, Effect("expire", minute_candle.time, pp.time,
                                                 Len(st.open_trades)))]
        ELSE IF ~met
        THEN st1
        ELSE IF entry_price_override = None \/ entry_price_override = 0
        THEN [st1 EXCEPT !.pending_windows = KeepUnresolved(@, w)]
        ELSE IF filter[1] /\ Len(st.open_trades) < MaxTrades(trade_config)
        THEN [st1 EXCEPT !.confirmed_signals = @ + 1,
                         !.executed_trades = @ + 1,
                         !.open_trades = Append(@, trade.id),
                         !.all_trades = Append(@, trade),
                         !.pending_windows = PopExecuted(@, w),
                         !.log = Append(@, Effect("execute", minute_candle.time, pp.time,
                                                  Len(st.open_trades)))]
        ELSE Blocked(st1, w, minute_candle.time, pp.time)

\* for w in range(len(pending_windows) - 1, -1, -1)
RECURSIVE EvalWindows(_, _, _)
EvalWindows(st, w, minute_candle) ==
    IF w = 0 THEN st
    ELSE EvalWindows(EvalWindow(st, w, minute_candle), w - 1, minute_candle)

\* mutation of UpdateOpenTrade: a trade that closed is not popped from open_trades
UpdateOpenTradeKept(st, j, minute_candle) ==
    LET id == st.open_trades[j]
        trade == st.all_trades[id]
        updated == update_trade(trade, minute_candle, trade_config)
    IN  IF ~(minute_candle.time >= trade.entry_time) THEN st
        ELSE IF updated.status = "closed"
        THEN [st EXCEPT !.all_trades[id] = updated,
                        !.capital = @ + updated.pnl,
                        !.log = Append(@, Effect("close", minute_candle.time,
                                                 trade.pivot.time, Len(st.open_trades)))]
        ELSE [st EXCEPT !.all_trades[id] = updated]

\* the body of the loop over open_trades for position j at one minute candle
UpdateOpenTrade(st, j, minute_candle) ==
    LET id == st.open_trades[j]
        trade == st.all_trades[id]
        updated == update_trade(trade, minute_candle, trade_config)
    IN  IF ~(minute_candle.time >= trade.entry_time) THEN st
        ELSE IF updated.status = "closed"
        THEN [st EXCEPT !.all_trades[id] = updated,
                        !.capital = @ + updated.pnl,
                        !.open_trades = RemoveAt(@, j),
                        !.log = Append(@, Effect("close", minute_candle.time,
                                                 trade.pivot.time, Len(st.open_trades)))]
        ELSE [st EXCEPT !.all_trades[id] = updated]

\* for j in range(len(open_trades) - 1, -1, -1)
RECURSIVE UpdateOpenTrades(_, _, _)
UpdateOpenTrades(st, j, minute_candle) ==
    IF j = 0 THEN st
    ELSE UpdateOpenTrades(UpdateOpenTrade(st, j, minute_candle), j - 1, minute_candle)

\* one iteration of "for minute_candle in minute_candles_in_range"
MinuteStep(st, minute_candle) ==
    LET st1 == UpdateOpenTrades(st, Len(st.open_trades), minute_candle)
    IN  IF trading_mode = "cascade" /\ st1.pending_windows # <<>>
        THEN EvalWindows(st1, Len(st1.pending_windows), minute_candle)
        ELSE st1


\* ----------------------------------------------------------------- inputs
Prices == {400, 500}

\* the base series starts at minute 12 and has one candle per minute
StartTime == 12 * MinuteMs

BaseSeries(closes) ==
    [n \in 1..NumTicks |->
        Candle(StartTime + (n - 1) * MinuteMs,
               closes[n], closes[n], closes[n], closes[n], 1)]

AllBaseSeries == {BaseSeries(closes) : closes \in [1..NumTicks -> Prices]}

TimeframeConfig(interval, role, opposite) ==
    [interval |-> interval, role |-> role, lookback |-> 1, minSwingPct |-> 0,
     minLegBars |-> 1, opposite |-> opposite, weight |-> 1]

\* a confirmation-window dictionary: empty, or one entry for the primary interval
WindowDict(interval, minutes) ==
    IF minutes = None THEN <<>> ELSE (interval :> minutes)

\* multi_agg_config.json: the primary timeframe, one other timeframe, and the
\* confirmation window under each of the two keys the code reads
MultiPivotConfig(primary, opposite, loop_minutes, search_minutes, min_required) ==
    LET other == IF primary = TF1m THEN TF2m ELSE TF1m
    IN  [timeframes |-> <<TimeframeConfig(primary, "primary", FALSE),
                          TimeframeConfig(other, "secondary", opposite)>>,
         cascadeSettings |-> [confirmationWindow |-> WindowDict(primary, loop_minutes)],
         cascade_settings |->
             [confirmation_window |-> WindowDict(primary, search_minutes),
              min_timeframes_required |-> min_required,
              require_primary_timeframe |-> FALSE]]

\* trade_config.json; funding_interval_hours is held in quarters of an hour
TradeConfig(single_trade_mode, max_concurrent_trades) ==
    [initial_capital |-> 100000, take_profit |-> 20, stop_loss |-> 20,
     leverage |-> 1, direction |-> "both",
     single_trade_mode |-> single_trade_mode,
     max_concurrent_trades |-> max_concurrent_trades,
     entry_delay_minutes |-> 0,
     funding_interval |-> 1 * 15 * MinuteMs, funding_rate |-> 1,
     simulate_funding |-> FALSE, simulate_slippage |-> FALSE,
     slippage_percentage |-> 200, total_maker_fee |-> 1000,
     position_sizing_mode |-> "fixed", amount_per_trade |-> 10000,
     risk_per_trade |-> 100, minimum_trade_amount |-> 10000]

\* <<loop_minutes, search_minutes>>: the configured window as each key gives it
WindowSettings == {<<None, None>>, <<0, 0>>, <<3, 3>>, <<3, None>>}

CascadeConfigs ==
    {<<MultiPivotConfig(primary, opposite, ws[1], ws[2], min_required),
       TradeConfig(FALSE, 2)>> :
        primary \in {TF1m, TF2m}, opposite \in BOOLEAN,
        ws \in WindowSettings, min_required \in {1, 2}}

CapConfigs ==
    {<<MultiPivotConfig(TF1m, FALSE, None, None, 1), TradeConfig(single, cap)>> :
        single \in BOOLEAN, cap \in {1, 2}}

\* configurations that vary the direction policy and the mandatory primary
\* confirmation
PolicyConfigs ==
    {<<[MultiPivotConfig(TF1m, FALSE, 3, 3, min_required)
            EXCEPT !.cascade_settings.require_primary_timeframe = require_primary],
       [TradeConfig(FALSE, 2) EXCEPT !.direction = direction]>> :
        require_primary \in BOOLEAN, min_required \in {1, 2},
        direction \in {"both", "alternate", "buy", "sell"}}

\* configurations with an entry delay, in minutes
DelayConfigs ==
    {<<MultiPivotConfig(TF1m, FALSE, minutes, minutes, 1),
       [TradeConfig(FALSE, 2) EXCEPT !.entry_delay_minutes = delay]>> :
        minutes \in {None, 1}, delay \in {1, 3}}

\* configurations that vary the cost terms of the P&L
PnlConfigs ==
    {<<MultiPivotConfig(TF1m, FALSE, None, None, 1),
       [TradeConfig(FALSE, 2) EXCEPT !.take_profit = 9, !.stop_loss = 9,
                                     !.amount_per_trade = 1000,
                                     !.funding_rate = 1000,
                                     !.slippage_percentage = 2000,
                                     !.total_maker_fee = fee,
                                     !.simulate_slippage = slippage,
                                     !.simulate_funding = funding,
                                     !.direction = direction]>> :
        fee \in {0, 1000}, slippage \in BOOLEAN, funding \in BOOLEAN,
        direction \in {"both", "alternate"}}

PnlPrices == {100, 110}

\* eight hours: the funding period of update_trade
FundingPeriodMs == 8 * 60 * MinuteMs

\* a base series with eight hours of candles missing after its first half
GapSeries(closes) ==
    [n \in 1..NumTicks |->
        Candle(StartTime + (n - 1) * MinuteMs
                   + (IF n > NumTicks \div 2 THEN FundingPeriodMs ELSE 0),
               closes[n], closes[n], closes[n], closes[n], 1)]

AllGapSeries == {GapSeries(closes) : closes \in [1..NumTicks -> PnlPrices]}

\* ------------------------------------------------------------------- Init
\* the locals of run_immediate_aggregation_backtest before its first statement
InitLocals ==
    /\ pc = "setup"
    /\ timeframe_data = <<>>
    /\ timeframe_pivots = <<>>
    /\ primary_tf_name = <<>>
    /\ i = 0
    /\ minute_candles_in_range = <<>>
    /\ m = 1
    /\ capital = 0
    /\ open_trades = <<>>
    /\ all_trades = <<>>
    /\ pending_windows = <<>>
    /\ applied_funding_rates = {}
    /\ confirmed_signals = 0
    /\ executed_trades = 0
    /\ total_signals = 0
    /\ log = <<>>
    /\ evals = <<>>
    /\ funding_calls = <<>>
    /\ last_tick = None

InitRun ==
    /\ main_config = [pivot_detection_mode |-> "close"]
    /\ InitLocals

Init ==
    /\ one_minute_candles \in AllBaseSeries
    /\ \E c \in CascadeConfigs \cup CapConfigs :
           /\ multi_pivot_config = c[1]
           /\ trade_config = c[2]
    /\ InitRun

InitTrade ==
    /\ \/ /\ one_minute_candles \in AllBaseSeries
          /\ \E c \in PolicyConfigs \cup DelayConfigs :
                 /\ multi_pivot_config = c[1]
                 /\ trade_config = c[2]
       \/ /\ one_minute_candles \in AllGapSeries
          /\ \E c \in PnlConfigs :
                 /\ multi_pivot_config = c[1]
                 /\ trade_config = c[2]
    /\ InitRun

\* the number of candles of a base series for pivot detection; a base series
\* for aggregation has one candle more
NumData == 3

\* <<open, high, low, close>> of a candle whose four prices are equal
Flat(p) == <<p, p, p, p>>

\* a candle whose high and low both lie outside a flat candle at 8, 10 or 12
OutsideBar == <<10, 14, 6, 11>>

PivotShapes == {Flat(10), Flat(12), Flat(8), OutsideBar}

AggShapes == {Flat(12), OutsideBar}

\* minutes missing after a candle of a series with a gap
GapMinutes == 3

\* a base series with one candle per minute and GapMinutes minutes missing
\* after candle gap_after (none when gap_after = 0); the volume of a candle is
\* its position
DataSeries(shapes, gap_after) ==
    [n \in DOMAIN shapes |->
        Candle(StartTime + (n - 1) * MinuteMs
                   + (IF gap_after > 0 /\ n > gap_after THEN GapMinutes * MinuteMs ELSE 0),
               shapes[n][1], shapes[n][2], shapes[n][3], shapes[n][4], n)]

PivotSeries == {DataSeries(shapes, 0) : shapes \in [1..NumData -> PivotShapes]}

AggSeries == {DataSeries(shapes, gap_after) :
                  shapes \in [1..(NumData + 1) -> AggShapes], gap_after \in 0..NumData}

\* the intervals of a second timeframe: minutes, hours, days, weeks, a number
\* without a suffix, and strings that are no interval
DataIntervals == {TF2m, <<"3", "m">>, <<"1", "h">>, <<"1", "d">>, <<"1", "w">>,
                  <<"2">>, <<"x">>, <<"0", "m">>}

\* multi_agg_config.json with timeframe '1m' and one other timeframe, their
\* roles, and the pivot settings of both
DataConfig(other_interval, roles, lookback, min_swing_pct) ==
    [MultiPivotConfig(TF1m, FALSE, None, None, 1) EXCEPT !.timeframes =
        <<[TimeframeConfig(TF1m, roles[1], FALSE)
               EXCEPT !.lookback = lookback, !.minSwingPct = min_swing_pct],
          [TimeframeConfig(other_interval, roles[2], FALSE)
               EXCEPT !.lookback = lookback, !.minSwingPct = min_swing_pct]>>]

\* the lookbacks and the minimum swing percentages of the pivot configurations
Lookbacks == {0, 1, 2}

MinSwings == {0, 25}

DetectionModes == {"close", "highlow"}

InitData ==
    /\ trade_config = TradeConfig(FALSE, 2)
    /\ \/ /\ one_minute_candles \in PivotSeries
          /\ \E lookback \in Lookbacks, min_swing_pct \in MinSwings :
                 multi_pivot_config =
                     DataConfig(TF2m, <<"primary", "secondary">>, lookback, min_swing_pct)
          /\ \E mode \in DetectionModes :
                 main_config = [pivot_detection_mode |-> mode]
       \/ /\ one_minute_candles \in AggSeries
          /\ \E other_interval \in DataIntervals :
                 multi_pivot_config =
                     DataConfig(other_interval, <<"primary", "secondary">>, 1, 0)
          /\ main_config = [pivot_detection_mode |-> "close"]
       \/ /\ one_minute_candles \in AggSeries
          /\ multi_pivot_config =
                 DataConfig(TF2m, <<"secondary", "secondary">>, 1, 0)
          /\ main_config = [pivot_detection_mode |-> "close"]
    /\ InitLocals

\* a base series of NumTicks flat candles, one per minute, whose timestamps
\* lie offset after the minute, with GapMinutes minutes missing after candle
\* gap_after (none when gap_after = 0)
FeedSeries(closes, offset, gap_after) ==
    [n \in 1..NumTicks |->
        Candle(StartTime + offset + (n - 1) * MinuteMs
                   + (IF gap_after > 0 /\ n > gap_after THEN GapMinutes * MinuteMs ELSE 0),
               closes[n], closes[n], closes[n], closes[n], 1)]

AllFeedSeries(offset, gap_after) ==
    {FeedSeries(closes, offset, gap_after) : closes \in [1..NumTicks -> Prices]}

\* configurations with a '1m' primary that vary the entry delay, the number of
\* confirmations required and the direction policy
EntryConfigs(directions) ==
    {<<MultiPivotConfig(TF1m, FALSE, None, None, min_required),
       [TradeConfig(FALSE, 2) EXCEPT !.entry_delay_minutes = delay,
                                     !.direction = direction]>> :
        min_required \in {1, 2}, delay \in {0, 1}, direction \in directions}

\* configurations that block trades: one trade at a time, or one direction only
BlockingConfigs ==
    {<<MultiPivotConfig(TF1m, FALSE, None, None, 1),
       [TradeConfig(single, 2) EXCEPT !.direction = direction]>> :
        single \in {TRUE}, direction \in {"both", "buy"}}

InitLoop ==
    /\ \/ /\ one_minute_candles \in AllFeedSeries(0, 0)
          /\ \E c \in EntryConfigs({"both", "alternate"}) \cup BlockingConfigs :
                 /\ multi_pivot_config = c[1]
                 /\ trade_config = c[2]
       \/ /\ one_minute_candles \in AllFeedSeries(ThirtySecMs, 0)
          /\ \E c \in EntryConfigs({"both"}) :
                 /\ multi_pivot_config = c[1]
                 /\ trade_config = c[2]
       \/ /\ one_minute_candles \in AllFeedSeries(0, 0) \cup AllFeedSeries(0, 3)
          /\ multi_pivot_config = MultiPivotConfig(TF2m, FALSE, None, None, 1)
          /\ trade_config = TradeConfig(FALSE, 2)
    /\ InitRun

\* ---------------------------------------------------------------- actions
PivotConfig(tf_config) ==
    [pivotLookback |-> tf_config.lookback, minSwingPct |-> tf_config.minSwingPct,
     minLegBars |-> tf_config.minLegBars,
     pivot_detection_mode |-> main_config.pivot_detection_mode]

IntervalNames == {multi_pivot_config.timeframes[n].interval :
                      n \in 1..Len(multi_pivot_config.timeframes)}

\* timeframe_data[tf_name] as the first loop over the timeframes builds it
BuildTimeframeData(tf_name) ==
    IF tf_name = TF1m THEN one_minute_candles
    ELSE aggregate_candles(one_minute_candles, tf_name)

\* timeframe_pivots[tf_name] as the second loop fills it: the pivots of every
\* timeframe entry with that interval, in configuration order
RECURSIVE BuildTimeframePivots(_, _, _)
BuildTimeframePivots(tf_name, data, n) ==
    IF n > Len(multi_pivot_config.timeframes) THEN <<>>
    ELSE LET tf_config == multi_pivot_config.timeframes[n]
         IN  (IF tf_config.interval = tf_name
              THEN DetectedPivots(data, tf_name, PivotConfig(tf_config))
              ELSE <<>>) \o BuildTimeframePivots(tf_name, data, n + 1)

\* mutation of PrimaryTimeframes: without a primary entry the first timeframe
\* drives the loop
PrimaryTimeframesDefaulted ==
    LET primary == SelectSeq(multi_pivot_config.timeframes,
                             LAMBDA tf : tf.role = "primary")
    IN  IF primary = <<>> THEN multi_pivot_config.timeframes ELSE primary

PrimaryTimeframes == SelectSeq(multi_pivot_config.timeframes,
                               LAMBDA tf : tf.role = "primary")

\* lines 658-745: aggregation, pivot detection and the start of the simulation;
\* a ValueError (bad interval, no primary timeframe, no 1m series) ends the run
Setup ==
    /\ pc = "setup"
    /\ LET bad == \E n \in IntervalNames :
                      n # TF1m /\ AggregateRaises(n)
           data == [n \in IntervalNames |-> BuildTimeframeData(n)]
           no_one_minute == TF1m \notin IntervalNames \/ one_minute_candles = <<>>
       IN  IF bad \/ PrimaryTimeframes = <<>> \/ no_one_minute
           THEN /\ pc' = "error"
                /\ UNCHANGED <<timeframe_data, timeframe_pivots, primary_tf_name, capital>>
           ELSE /\ pc' = "candle"
                /\ timeframe_data' = data
                /\ timeframe_pivots' =
                       [n \in IntervalNames |-> BuildTimeframePivots(n, data[n], 1)]
                /\ primary_tf_name' = PrimaryTimeframes[1].interval
                /\ capital' = trade_config.initial_capital
    /\ UNCHANGED <<config_vars, i, minute_candles_in_range, m, open_trades, all_trades,
                   pending_windows, applied_funding_rates, confirmed_signals,
                   executed_trades, total_signals, log, evals, funding_calls,
                   last_tick>>

primary_candles == timeframe_data[primary_tf_name]

primary_pivots == timeframe_pivots[primary_tf_name]

\* mutation of MinuteCandlesInRange: the lower bound of the sub-window is closed
MinuteCandlesInRangeClosed(current_time) ==
    LET primary_tf_minutes == parse_timeframe_to_minutes(primary_tf_name)
        start_time == current_time - primary_tf_minutes * MinuteMs
    IN  SelectSeq(one_minute_candles,
                  LAMBDA c : start_time <= c.time /\ c.time <= current_time)

\* the 1-minute candles with start_time < time <= current_time
MinuteCandlesInRange(current_time) ==
    LET primary_tf_minutes == parse_timeframe_to_minutes(primary_tf_name)
        start_time == current_time - primary_tf_minutes * MinuteMs
    IN  SelectSeq(one_minute_candles,
                  LAMBDA c : start_time < c.time /\ c.time <= current_time)

OpenTradeSizes == [n \in 1..Len(open_trades) |-> all_trades[open_trades[n]].trade_size]

\* lines 748-765: the head of one iteration over primary_candles
StartCandle ==
    /\ pc = "candle"
    /\ i < Len(primary_candles)
    /\ LET current_time == primary_candles[i + 1].time
           range == MinuteCandlesInRange(current_time)
           funded == apply_funding_rates(current_time, OpenTradeSizes, capital,
                                         applied_funding_rates, trade_config)
           charged == FundingCharged(current_time, OpenTradeSizes,
                                     applied_funding_rates, trade_config)
       IN  /\ minute_candles_in_range' = range
           /\ m' = 1
           /\ capital' = funded.capital
           /\ applied_funding_rates' = funded.applied
           /\ funding_calls' = Append(funding_calls,
                  [time |-> current_time,
                   key |-> FundingTimeKey(current_time, trade_config),
                   open |-> Len(open_trades),
                   deducted |-> capital - funded.capital])
           /\ log' = IF charged
                     THEN Append(log, Effect("funding", current_time, None, Len(open_trades)))
                     ELSE log
           /\ pc' = IF range = <<>> THEN "pivot" ELSE "minute"
    /\ UNCHANGED <<config_vars, timeframe_data, timeframe_pivots, primary_tf_name, i,
                   open_trades, all_trades, pending_windows, confirmed_signals,
                   executed_trades, total_signals, evals, last_tick>>

\* lines 768-852: trade updates and window evaluation at one minute candle
ProcessMinute ==
    /\ pc = "minute"
    /\ LET st == MinuteStep([capital |-> capital, open_trades |-> open_trades,
                             all_trades |-> all_trades,
                             pending_windows |-> pending_windows,
                             confirmed_signals |-> confirmed_signals,
                             executed_trades |-> executed_trades,
                             log |-> log, evals |-> <<>>],
                            minute_candles_in_range[m])
       IN  /\ capital' = st.capital
           /\ open_trades' = st.open_trades
           /\ all_trades' = st.all_trades
           /\ pending_windows' = st.pending_windows
           /\ confirmed_signals' = st.confirmed_signals
           /\ executed_trades' = st.executed_trades
           /\ log' = st.log
           /\ evals' = st.evals
    /\ m' = m + 1
    /\ last_tick' = minute_candles_in_range[m].time
    /\ pc' = IF m = Len(minute_candles_in_range) THEN "pivot" ELSE "minute"
    /\ UNCHANGED <<config_vars, timeframe_data, timeframe_pivots, primary_tf_name, i,
                   minute_candles_in_range, applied_funding_rates, total_signals,
                   funding_calls>>

\* lines 862-872: a primary pivot at this candle opens a pending window
CheckPivot ==
    /\ pc = "pivot"
    /\ LET current_time == primary_candles[i + 1].time
           at == SelectSeq(primary_pivots, LAMBDA p : p.time = current_time)
       IN  IF at # <<>>
           THEN /\ total_signals' = total_signals + 1
                /\ pending_windows' =
                       IF trading_mode = "cascade"
                       THEN Append(pending_windows,
                                   [primary_pivot |-> at[1], created_time |-> current_time])
                       ELSE pending_windows
                /\ log' = Append(log, Effect("create", current_time, at[1].time,
                                                Len(open_trades)))
           ELSE UNCHANGED <<total_signals, pending_windows, log>>
    /\ i' = i + 1
    /\ pc' = "candle"
    /\ UNCHANGED <<config_vars, timeframe_data, timeframe_pivots, primary_tf_name,
                   minute_candles_in_range, m, capital, open_trades, all_trades,
                   applied_funding_rates, confirmed_signals, executed_trades,
                   evals, funding_calls, last_tick>>

\* for trade in open_trades: update_trade(trade, last_candle); capital += trade.pnl
RECURSIVE CloseRemainingFrom(_, _, _)
CloseRemainingFrom(st, n, last_candle) ==
    IF n > Len(open_trades) THEN st
    ELSE LET id == open_trades[n]
             updated == update_trade(st.all_trades[id], last_candle, trade_config)
         IN  CloseRemainingFrom(
                 [st EXCEPT !.all_trades[id] = updated,
                            !.capital = @ + updated.pnl,
                            !.log = IF updated.status = "closed"
                                    THEN Append(@, Effect("close", last_candle.time,
                                                          updated.pivot.time,
                                                          Len(open_trades)))
                                    ELSE @],
                 n + 1, last_candle)

\* lines 879-884: the pass over the trades still open after the last candle
CloseRemaining ==
    /\ pc = "candle"
    /\ i = Len(primary_candles)
    /\ LET st == IF open_trades # <<>>
                 THEN CloseRemainingFrom([capital |-> capital, all_trades |-> all_trades,
                                          log |-> log],
                                         1, primary_candles[Len(primary_candles)])
                 ELSE [capital |-> capital, all_trades |-> all_trades, log |-> log]
       IN  /\ capital' = st.capital
           /\ all_trades' = st.all_trades
           /\ log' = st.log
    /\ pc' = "done"
    /\ UNCHANGED <<config_vars, timeframe_data, timeframe_pivots, primary_tf_name, i,
                   minute_candles_in_range, m, open_trades, pending_windows,
                   applied_funding_rates, confirmed_signals, executed_trades,
                   total_signals, evals, funding_calls, last_tick>>

Next ==
    \/ Setup
    \/ StartCandle
    \/ ProcessMinute
    \/ CheckPivot
    \/ CloseRemaining

Spec == Init /\ [][Next]_vars

SpecTrade == InitTrade /\ [][Next]_vars

SpecData == InitData /\ [][Next]_vars

SpecLoop == InitLoop /\ [][Next]_vars


\* ================================================================= claims
PrimaryLoopMinutes ==
    Get(multi_pivot_config.cascadeSettings.confirmationWindow,
        multi_pivot_config.timeframes[1].interval)

PrimarySearchMinutes ==
    Get(multi_pivot_config.cascade_settings.confirmation_window,
        multi_pivot_config.timeframes[1].interval)

\* the configuration gives an effective bound of five minutes: no bound is
\* configured for the primary timeframe, or one of at least five minutes
BoundIsFiveMinutes ==
    /\ PrimaryLoopMinutes = None \/ PrimaryLoopMinutes >= ProximityMinutes
    /\ PrimarySearchMinutes = None \/ PrimarySearchMinutes >= ProximityMinutes

Terminal(e) == e.kind \in {"expire", "execute", "drop"}

OtherPivots == timeframe_pivots[multi_pivot_config.timeframes[2].interval]

C2_OneTerminalOutcome ==
    /\ \A a, b \in 1..Len(log) :
           (a # b /\ Terminal(log[a]) /\ Terminal(log[b])) => log[a].pivot # log[b].pivot
    /\ \A a, b \in 1..Len(log) :
           (a # b /\ log[a].kind = "create" /\ log[b].kind = "create")
               => log[a].pivot # log[b].pivot
    /\ \A a \in 1..Len(log) : \A w \in 1..Len(pending_windows) :
           Terminal(log[a]) => pending_windows[w].primary_pivot.time # log[a].pivot
    /\ \A a, b \in 1..Len(all_trades) :
           a # b => all_trades[a].pivot.time # all_trades[b].pivot.time

\* C2 witness: one window has expired, another has executed, and a third is
\* still pending.
C2_Witness ==
    /\ \E a \in 1..Len(log) : log[a].kind = "expire"
    /\ \E a \in 1..Len(log) : log[a].kind = "execute"
    /\ pending_windows # <<>>


OppositeSignal(signal) == IF signal = "long" THEN "short" ELSE "long"

\* C3: the signal of every confirming pivot is the primary pivot's signal for
\* a timeframe whose opposite flag is unset, and the opposite signal for one
\* whose flag is set.
C3_RequiredSignal ==
    \A n \in 1..Len(evals) : \A k \in 1..Len(evals[n].confirmations) :
        LET c == evals[n].confirmations[k]
        IN  c.pivot.signal = IF c.inverted
                             THEN OppositeSignal(evals[n].primary.signal)
                             ELSE evals[n].primary.signal

\* the cap on concurrently open trades, as the configuration states it
Cap ==
    IF trade_config.single_trade_mode THEN 1 ELSE trade_config.max_concurrent_trades

BaseTimes == {one_minute_candles[n].time : n \in 1..Len(one_minute_candles)}

\* the run has exactly one primary pivot and exactly one pivot on the other
\* timeframe, with the same signal and inside the five-minute window; one
\* confirmation suffices, both directions trade, and a base candle exists at
\* the execution time and is evaluated while the window is open
C4_Scenario ==
    /\ Len(primary_pivots) = 1
    /\ Len(OtherPivots) = 1
    /\ OtherPivots[1].signal = primary_pivots[1].signal
    /\ ~multi_pivot_config.timeframes[2].opposite
    /\ BoundIsFiveMinutes
    /\ Abs(OtherPivots[1].time - primary_pivots[1].time) <= ProximityMinutes * MinuteMs
    /\ multi_pivot_config.cascade_settings.min_timeframes_required = 1
    /\ trade_config.direction = "both"
    /\ Cap >= 1
    /\ Max2(primary_pivots[1].time, OtherPivots[1].time) \in BaseTimes
    /\ \E t \in BaseTimes :
           /\ t > primary_pivots[1].time
           /\ t >= OtherPivots[1].time
           /\ t <= primary_pivots[1].time + ProximityMinutes * MinuteMs

\* C4: in that scenario the finished run has opened exactly one trade, in the
\* direction of the primary pivot's signal.
C4_EndToEnd ==
    (pc = "done" /\ C4_Scenario) =>
        /\ Len(all_trades) = 1
        /\ all_trades[1].type = primary_pivots[1].signal

\* C5: when the run has finished every trade of the ledger is closed, with its
\* exit price and exit time set, and no trade in open_trades is open.
C5_AllClosedAtEnd ==
    pc = "done" =>
        /\ \A n \in 1..Len(all_trades) :
               /\ all_trades[n].status = "closed"
               /\ all_trades[n].exit_price # None
               /\ all_trades[n].exit_time # None
        /\ \A n \in 1..Len(open_trades) : all_trades[open_trades[n]].status # "open"

NumOpen == Cardinality({n \in 1..Len(all_trades) : all_trades[n].status = "open"})

\* C6: the number of open trades never exceeds the cap, and every trade was
\* opened while the number of open trades was strictly below the cap.
C6_ConcurrencyCap ==
    /\ NumOpen <= Cap
    /\ \A n \in 1..Len(log) : log[n].kind = "execute" => log[n].open < Cap

\* C6 witness: the cap is reached, and a confirmed window was turned away
\* because of it.
C6_Witness ==
    /\ NumOpen = Cap
    /\ \E n \in 1..Len(log) : log[n].kind = "drop" /\ log[n].open = Cap
    /\ \E n \in 1..Len(log) : log[n].kind = "execute" /\ log[n].open = Cap - 1

\* C7: among the funding evaluations of one funding interval made while
\* trades are open, the first one deducts the charge and no other does; an
\* evaluation without open trades deducts nothing.
C7_FundingOncePerInterval ==
    \A a \in 1..Len(funding_calls) :
        (funding_calls[a].deducted > 0) <=>
            /\ funding_calls[a].open > 0
            /\ ~\E b \in 1..(a - 1) :
                   /\ funding_calls[b].key = funding_calls[a].key
                   /\ funding_calls[b].open > 0

\* C7 witness: two evaluations in the same interval with trades open; the
\* first deducted, the second did not.
C7_Witness ==
    \E a, b \in 1..Len(funding_calls) :
        /\ a < b
        /\ funding_calls[a].key = funding_calls[b].key
        /\ funding_calls[a].time < funding_calls[b].time
        /\ funding_calls[a].open > 0
        /\ funding_calls[b].open > 0
        /\ funding_calls[a].deducted > 0
        /\ funding_calls[b].deducted = 0

Rank(kind) ==
    CASE kind = "funding" -> 1
      [] kind = "close" -> 2
      [] kind \in {"expire", "execute", "drop"} -> 3
      [] kind = "create" -> 4

\* C8: during the pass the effects are applied in ascending order of their
\* timestamps, and at one timestamp in the order funding, closures, window
\* evaluation, window creation.
C8_EffectsInOrder ==
    pc # "done" =>
        \A a, b \in 1..Len(log) :
            a < b =>
                /\ log[a].time <= log[b].time
                /\ log[a].time = log[b].time => Rank(log[a].kind) <= Rank(log[b].kind)

\* the effective window the claim states: min(5 minutes, configured bound)
StatedWindowMs(configured_minutes) ==
    IF configured_minutes = None THEN ProximityMinutes * MinuteMs
    ELSE Min2(ProximityMinutes * MinuteMs, configured_minutes * MinuteMs)

\* C9: every confirmation computed at a tick refers to a pivot at or before
\* that tick and within the effective window of the primary pivot's time.
C9_NoFutureConfirmation ==
    \A n \in 1..Len(evals) : \A k \in 1..Len(evals[n].confirmations) :
        LET c == evals[n].confirmations[k]
        IN  /\ c.pivot.time <= evals[n].at
            /\ Abs(c.pivot.time - evals[n].primary.time)
                   <= StatedWindowMs(PrimarySearchMinutes)

\* C9 witness: a window is confirmed by a pivot of the other timeframe while a
\* pivot with the required signal lies inside the window but after the tick.
C9_Witness ==
    \E n \in 1..Len(evals) :
        /\ \E k \in 1..Len(evals[n].confirmations) :
               evals[n].confirmations[k].timeframe # primary_tf_name
        /\ \E k \in 1..Len(OtherPivots) :
               /\ OtherPivots[k].time > evals[n].at
               /\ OtherPivots[k].time - evals[n].primary.time
                      <= StatedWindowMs(PrimarySearchMinutes)
               /\ OtherPivots[k].signal =
                      TargetSignal(evals[n].primary.signal,
                                   multi_pivot_config.timeframes[2].opposite)

\* C10: for a bound configured alike under both keys (or under neither), the
\* deadline of every evaluated window is primary pivot time + min(5 minutes,
\* bound), and the window searched for confirmations is the same.
C10_SameEffectiveWindow ==
    PrimaryLoopMinutes = PrimarySearchMinutes =>
        \A n \in 1..Len(evals) :
            /\ evals[n].window_end
                   = evals[n].primary.time + StatedWindowMs(PrimaryLoopMinutes)
            /\ evals[n].search_window = evals[n].window_end - evals[n].primary.time

\* C11: no confirmation of a window comes from the primary timeframe.
C11_PrimaryNotSearched ==
    \A n \in 1..Len(evals) : \A k \in 1..Len(evals[n].confirmations) :
        /\ evals[n].confirmations[k].timeframe # primary_tf_name
        /\ evals[n].confirmations[k].pivot # evals[n].primary

\* C14: the ledger all_trades holds closed trades only, and no trade of
\* open_trades is in it.
C14_OneOwner ==
    /\ \A n \in 1..Len(all_trades) : all_trades[n].status = "closed"
    /\ \A j \in 1..Len(open_trades) :
           ~\E n \in 1..Len(all_trades) : all_trades[n].id = open_trades[j]

\* C16: every trade's take-profit and stop-loss lie tp% and sl% of its entry
\* price away from its entry price, on the side its direction selects.
C16_TargetsFromEntryPrice ==
    \A n \in 1..Len(all_trades) :
        LET t == all_trades[n]
            tp_distance == (t.entry_price * trade_config.take_profit) \div 100
            sl_distance == (t.entry_price * trade_config.stop_loss) \div 100
        IN  IF t.type = "long"
            THEN /\ t.take_profit_price = t.entry_price + tp_distance
                 /\ t.stop_loss_price = t.entry_price - sl_distance
            ELSE /\ t.take_profit_price = t.entry_price - tp_distance
                 /\ t.stop_loss_price = t.entry_price + sl_distance

\* the tick at which the window of a trade was executed
ExecutionTick(t) ==
    LET e == CHOOSE a \in 1..Len(log) :
                 log[a].kind = "execute" /\ log[a].pivot = t.pivot.time
    IN  log[e].time

\* the closes of the ticks a trade has been updated with: the ticks after its
\* execution, at or after its entry time, up to the last tick processed
ObservedCloses(t) ==
    {one_minute_candles[n].close : n \in
        {k \in 1..Len(one_minute_candles) :
            /\ one_minute_candles[k].time > ExecutionTick(t)
            /\ one_minute_candles[k].time >= t.entry_time
            /\ one_minute_candles[k].time <= last_tick}}

\* C17: an open trade's best_price is the maximum (Long) or minimum (Short)
\* of its entry price and the closes of the ticks it has been updated with.
C17_BestPriceObserved ==
    pc # "done" =>
        \A n \in 1..Len(all_trades) :
            LET t == all_trades[n]
                seen == {t.entry_price} \cup ObservedCloses(t)
            IN  t.status = "open" =>
                    t.best_price = IF t.type = "long" THEN SetMax(seen) ELSE SetMin(seen)

\* sum of the realized P&L of the closed trades
RECURSIVE RealizedPnl(_)
RealizedPnl(trades) ==
    IF trades = <<>> THEN 0
    ELSE (IF Head(trades).status = "closed" THEN Head(trades).pnl ELSE 0)
             + RealizedPnl(Tail(trades))

\* C19: with funding simulation disabled, capital is the initial capital plus
\* the realized P&L of the trades closed so far.
C19_NoFundingWhenDisabled ==
    (pc \notin {"setup", "error"} /\ ~trade_config.simulate_funding) =>
        capital = trade_config.initial_capital + RealizedPnl(all_trades)

\* C15: a step never changes a closed trade, and changes the P&L of an open
\* trade only by closing it; trades are never removed from all_trades.
C15_ClosedIsImmutable ==
    [][/\ Len(all_trades') >= Len(all_trades)
       /\ \A n \in 1..Len(all_trades) :
              /\ all_trades[n].status = "closed" => all_trades'[n] = all_trades[n]
              /\ all_trades'[n].pnl # all_trades[n].pnl =>
                     /\ all_trades[n].status = "open"
                     /\ all_trades'[n].status = "closed"]_vars

\* the close of the base candle at time t
CloseAt(t) ==
    LET n == CHOOSE k \in 1..Len(one_minute_candles) : one_minute_candles[k].time = t
    IN  one_minute_candles[n].close

\* C15 witness: a trade closed at an earlier tick, and the last tick processed
\* has a close at which its exit test would fire again.
C15_Witness ==
    /\ last_tick # None
    /\ \E n \in 1..Len(all_trades) :
           /\ all_trades[n].status = "closed"
           /\ all_trades[n].pnl # 0
           /\ all_trades[n].exit_time < last_tick
           /\ ExitReason(all_trades[n], CloseAt(last_tick)) # ""

\* the window of primary pivot pp has an execute or drop entry at tick t
Resolved(pp, t) ==
    \E a \in 1..Len(log) :
        log[a].kind \in {"execute", "drop"} /\ log[a].pivot = pp.time /\ log[a].time = t

\* C12: an evaluated window meets the execution requirements iff it has at
\* least min_timeframes_required confirmations and, when the primary
\* confirmation is mandatory, one of role 'primary'; only a window that meets
\* them is executed or removed at that tick.
C12_RequirementsIff ==
    \A n \in 1..Len(evals) :
        LET e == evals[n]
            cs == multi_pivot_config.cascade_settings
            enough == Len(e.confirmations) >= cs.min_timeframes_required
            has_primary == \E k \in 1..Len(e.confirmations) :
                               e.confirmations[k].role = "primary"
        IN  /\ e.met <=> (enough /\ (cs.require_primary_timeframe => has_primary))
            /\ Resolved(e.primary, e.at) => e.met

\* C12 witness: with a mandatory primary confirmation, a window has enough
\* confirmations, none of role 'primary', and is not executed.
C12_Witness ==
    \E n \in 1..Len(evals) :
        /\ multi_pivot_config.cascade_settings.require_primary_timeframe
        /\ Len(evals[n].confirmations)
               >= multi_pivot_config.cascade_settings.min_timeframes_required
        /\ \A k \in 1..Len(evals[n].confirmations) :
               evals[n].confirmations[k].role # "primary"
        /\ ~evals[n].met
        /\ ~Resolved(evals[n].primary, evals[n].at)

\* C13: a window that met its requirements at the last tick without a
\* resolvable entry price is still pending and has no outcome; and every
\* pending window created before the last tick was evaluated at it.
C13_UnresolvedStaysPending ==
    /\ \A n \in 1..Len(evals) :
           (evals[n].met /\ evals[n].price = None) =>
               /\ \E w \in 1..Len(pending_windows) :
                      pending_windows[w].primary_pivot = evals[n].primary
               /\ \A a \in 1..Len(log) :
                      Terminal(log[a]) => log[a].pivot # evals[n].primary.time
               /\ \A k \in 1..Len(all_trades) :
                      all_trades[k].pivot # evals[n].primary
    /\ \A w \in 1..Len(pending_windows) :
           (last_tick # None /\ pending_windows[w].created_time < last_tick) =>
               \E n \in 1..Len(evals) :
                   /\ evals[n].primary = pending_windows[w].primary_pivot
                   /\ evals[n].at = last_tick

\* C13 witness: a window met its requirements without an entry price at a
\* tick that is not the first one after its creation, and is still pending.
C13_Witness ==
    \E n \in 1..Len(evals) :
        /\ evals[n].met
        /\ evals[n].price = None
        /\ evals[n].at >= evals[n].primary.time + 2 * MinuteMs
        /\ \E w \in 1..Len(pending_windows) :
               pending_windows[w].primary_pivot = evals[n].primary

\* the realized P&L the claim states for a closed trade
StatedPnl(t) ==
    LET direction_sign == IF t.type = "long" THEN 1 ELSE 0 - 1
        gross == (direction_sign * (t.exit_price - t.entry_price)
                      * t.trade_size * t.leverage) \div t.entry_price
        fees == (t.trade_size * trade_config.total_maker_fee * 2) \div (100 * RateScale)
        slippage == IF trade_config.simulate_slippage
                    THEN (t.trade_size * trade_config.slippage_percentage)
                             \div (100 * RateScale)
                    ELSE 0
        periods == (t.exit_time - t.entry_time) \div FundingPeriodMs
        funding == IF trade_config.simulate_funding
                   THEN (t.trade_size * trade_config.funding_rate * periods)
                            \div (100 * RateScale)
                   ELSE 0
    IN  gross - fees - slippage - funding

\* zero fees, no slippage, no funding; entry 100, exit 110, size 1000, leverage 1
PnlExample(t) ==
    /\ trade_config.total_maker_fee = 0
    /\ ~trade_config.simulate_slippage
    /\ ~trade_config.simulate_funding
    /\ t.status = "closed"
    /\ t.entry_price = 100
    /\ t.exit_price = 110
    /\ t.trade_size = 1000
    /\ t.leverage = 1

\* C18: the P&L of every closed trade is the stated formula; in the example a
\* Long yields +100 and a Short -100.
C18_RealizedPnl ==
    \A n \in 1..Len(all_trades) :
        LET t == all_trades[n]
        IN  /\ t.status = "closed" => t.pnl = StatedPnl(t)
            /\ PnlExample(t) => t.pnl = IF t.type = "long" THEN 100 ELSE 0 - 100

\* C18 witness: the Long example, on a trade held over a funding period while
\* funding is not simulated.
C18_Witness ==
    \E n \in 1..Len(all_trades) :
        /\ PnlExample(all_trades[n])
        /\ all_trades[n].type = "long"
        /\ all_trades[n].pnl = 100
        /\ all_trades[n].exit_time - all_trades[n].entry_time >= FundingPeriodMs

\* C20: every trade has the direction the policy yields for its primary
\* pivot's signal, and no trade comes from a signal the policy rejects.
C20_DirectionPolicy ==
    \A n \in 1..Len(all_trades) :
        LET t == all_trades[n]
            signal == t.pivot.signal
            direction == trade_config.direction
        IN  CASE direction = "both" -> t.type = signal
              [] direction = "alternate" -> t.type = OppositeSignal(signal)
              [] direction = "buy" -> signal = "long" /\ t.type = "long"
              [] direction = "sell" -> signal = "short" /\ t.type = "short"
              [] OTHER -> FALSE

\* C20 witness: under the buy-side policy a confirmed Short window was
\* removed without a trade, and a Long trade was opened.
C20_Witness ==
    /\ trade_config.direction = "buy"
    /\ \E a \in 1..Len(log) :
           /\ log[a].kind = "drop"
           /\ log[a].open < MaxTrades(trade_config)
           /\ \E q \in 1..Len(primary_pivots) :
                  primary_pivots[q].time = log[a].pivot /\ primary_pivots[q].signal = "short"
    /\ \E n \in 1..Len(all_trades) : all_trades[n].type = "long"


\* ------------------------------------------------- aggregation and pivots
\* the timeframes of a run that went past its setup, other than '1m'
AggregatedTimeframes ==
    IF pc \in {"setup", "error"} THEN {}
    ELSE {tf \in DOMAIN timeframe_data : tf # TF1m}

IntervalMs(tf) == parse_timeframe_to_minutes(tf) * MinuteMs

\* C21: aggregating an aggregated series again at the same timeframe gives the
\* same series, timestamps included.
C21_AggregationIdempotent ==
    \A tf \in AggregatedTimeframes :
        aggregate_candles(timeframe_data[tf], tf) = timeframe_data[tf]


\* the base candles of the bucket that starts at bucket_start
InBucket(tf, bucket_start) ==
    SelectSeq(one_minute_candles,
              LAMBDA c : (c.time \div IntervalMs(tf)) * IntervalMs(tf) = bucket_start)

\* the start of every bucket that holds a base candle
NonEmptyBuckets(tf) ==
    {(one_minute_candles[n].time \div IntervalMs(tf)) * IntervalMs(tf) :
         n \in 1..Len(one_minute_candles)}

\* the candle the specification derives from the base candles of one bucket,
\* which the loader keeps in ascending time order
StatedCandle(tf, bucket_start) ==
    LET bucket == InBucket(tf, bucket_start)
    IN  [time |-> bucket_start + IntervalMs(tf),
         open |-> bucket[1].open,
         high |-> SetMax({bucket[n].high : n \in 1..Len(bucket)}),
         low |-> SetMin({bucket[n].low : n \in 1..Len(bucket)}),
         close |-> bucket[Len(bucket)].close,
         volume |-> SeqSum([n \in 1..Len(bucket) |-> bucket[n].volume])]

\* C22: every non-empty bucket gives exactly one derived candle: open of the
\* earliest candle, maximum high, minimum low, close of the latest, sum of the
\* volumes, stamped bucket start + interval; nothing else is derived.
C22_OneCandlePerBucket ==
    \A tf \in AggregatedTimeframes :
        /\ Len(timeframe_data[tf]) = Cardinality(NonEmptyBuckets(tf))
        /\ \A b \in NonEmptyBuckets(tf) :
               Cardinality({n \in 1..Len(timeframe_data[tf]) :
                                timeframe_data[tf][n] = StatedCandle(tf, b)}) = 1

\* four consecutive 1-minute candles in two 2-minute buckets give two candles
\* whose open, high, low and close all differ
C22_Witness ==
    /\ TF2m \in AggregatedTimeframes
    /\ Len(one_minute_candles) = 4
    /\ \A n \in 1..4 : one_minute_candles[n].time = StartTime + (n - 1) * MinuteMs
    /\ Len(timeframe_data[TF2m]) = 2
    /\ LET c == timeframe_data[TF2m][1]
       IN  Cardinality({c.open, c.high, c.low, c.close}) = 4


\* C23: an aggregated series is strictly ascending in time, so without
\* duplicate timestamps, and every candle of it belongs to a bucket that holds
\* a base candle.
C23_AscendingNoEmptyBucket ==
    \A tf \in AggregatedTimeframes :
        /\ \A n \in 1..(Len(timeframe_data[tf]) - 1) :
               timeframe_data[tf][n].time < timeframe_data[tf][n + 1].time
        /\ \A n \in 1..Len(timeframe_data[tf]) :
               timeframe_data[tf][n].time - IntervalMs(tf) \in NonEmptyBuckets(tf)

\* a base series with a gap that leaves a 2-minute bucket without candles
\* between two buckets with candles
C23_Witness ==
    /\ TF2m \in AggregatedTimeframes
    /\ \E n \in 1..(Len(timeframe_data[TF2m]) - 1) :
           timeframe_data[TF2m][n + 1].time - timeframe_data[TF2m][n].time
               > IntervalMs(TF2m)


\* the minutes the specification gives for an interval string: a number with
\* suffix m, h, d or w, or a number alone (minutes); ValueError for the rest
StatedMinutes(timeframe) ==
    LET n == Len(timeframe)
        number == IF n = 0 THEN ValueError ELSE IntOf(SubSeq(timeframe, 1, n - 1))
    IN  IF IntOf(timeframe) # ValueError THEN IntOf(timeframe)
        ELSE IF n = 0 \/ number = ValueError THEN ValueError
        ELSE CASE timeframe[n] = "m" -> number
               [] timeframe[n] = "h" -> 60 * number
               [] timeframe[n] = "d" -> 1440 * number
               [] timeframe[n] = "w" -> 10080 * number
               [] OTHER -> ValueError

\* C24: an interval parses to N, 60 N, 1440 N or 10080 N minutes by its suffix
\* m, h, d or w, a number without suffix parses as minutes, and any other
\* string is an error; so the setup of a run with a primary timeframe fails
\* exactly when an aggregated interval is an error or not positive.
C24_TimeframeParsing ==
    /\ \A tf \in IntervalNames : parse_timeframe_to_minutes(tf) = StatedMinutes(tf)
    /\ (pc # "setup" /\ PrimaryTimeframes # <<>>) =>
           (pc = "error" <=> \E tf \in IntervalNames \ {TF1m} : StatedMinutes(tf) <= 0)


\* the value of a candle that pivot detection compares: its close in close
\* mode, else its high for a high pivot and its low for a low pivot
ComparableValue(candle, type) ==
    IF main_config.pivot_detection_mode = "close" THEN candle.close
    ELSE IF type = "high" THEN candle.high ELSE candle.low

\* the value of candle n (1-based) exceeds that of each of its L predecessors
ExceedsPredecessors(candles, n, L) ==
    n > L /\ \A j \in 1..L : ComparableValue(candles[n], "high")
                                  > ComparableValue(candles[n - j], "high")

\* the value of candle n (1-based) is below that of each of its L predecessors
BelowPredecessors(candles, n, L) ==
    n > L /\ \A j \in 1..L : ComparableValue(candles[n], "low")
                                  < ComparableValue(candles[n - j], "low")

\* the timeframe entries of a run that went past its setup
DetectedEntries ==
    IF pc \in {"setup", "error"} THEN {}
    ELSE {multi_pivot_config.timeframes[n] : n \in 1..Len(multi_pivot_config.timeframes)}

\* the pivot of the given type detected at candle n (1-based) of a timeframe
PivotAt(tf, n, type) ==
    \E k \in 1..Len(timeframe_pivots[tf]) :
        /\ timeframe_pivots[tf][k].index = n - 1
        /\ timeframe_pivots[tf][k].type = type

\* C25: with lookback L > 0 and no swing threshold, a candle is a High pivot
\* iff its value exceeds the comparable value of each of its L predecessors, a
\* Low pivot iff it is below each of them, and no pivot with fewer than L
\* predecessors.
C25_PivotIffBeyondLookback ==
    \A e \in DetectedEntries :
        (e.lookback > 0 /\ e.minSwingPct = 0) =>
            \A n \in 1..Len(timeframe_data[e.interval]) :
                /\ PivotAt(e.interval, n, "high")
                       <=> ExceedsPredecessors(timeframe_data[e.interval], n, e.lookback)
                /\ PivotAt(e.interval, n, "low")
                       <=> BelowPredecessors(timeframe_data[e.interval], n, e.lookback)

\* C26: with lookback L > 0 the high-pivot and the low-pivot condition never
\* hold for the same candle, in either detection mode.
C26_BothOnlyAtLookbackZero ==
    \A e \in DetectedEntries :
        e.lookback > 0 =>
            \A n \in 1..Len(timeframe_data[e.interval]) :
                ~(/\ ExceedsPredecessors(timeframe_data[e.interval], n, e.lookback)
                  /\ BelowPredecessors(timeframe_data[e.interval], n, e.lookback))


\* the excursion of candle n (1-based) above and below the previous candle
UpExcursion(candles, n) ==
    ComparableValue(candles[n], "high") - ComparableValue(candles[n - 1], "high")

DownExcursion(candles, n) ==
    ComparableValue(candles[n - 1], "low") - ComparableValue(candles[n], "low")

\* the pivot type the specification gives candle n (1-based) at lookback 0
StatedTypeAtZero(candles, n) ==
    IF n = 1 THEN "none"
    ELSE LET up == UpExcursion(candles, n)
             down == DownExcursion(candles, n)
         IN  IF up > 0 /\ down > 0 THEN (IF up >= down THEN "high" ELSE "low")
             ELSE IF up > 0 THEN "high"
             ELSE IF down > 0 THEN "low"
             ELSE "none"

\* C27: with lookback 0 and no swing threshold a candle is compared with the
\* single previous candle; the first candle is no pivot; when it is both above
\* and below the previous candle the larger excursion gives the type, and High
\* on equal excursions.
C27_LookbackZero ==
    \A e \in DetectedEntries :
        (e.lookback = 0 /\ e.minSwingPct = 0) =>
            \A n \in 1..Len(timeframe_data[e.interval]) :
                \A type \in {"high", "low"} :
                    PivotAt(e.interval, n, type)
                        <=> StatedTypeAtZero(timeframe_data[e.interval], n) = type

\* one run with a candle of equal excursions above and below (High) and a
\* candle whose excursion below is the larger (Low)
C27_Witness ==
    /\ \E e \in DetectedEntries : \E n \in 2..Len(timeframe_data[e.interval]) :
           /\ e.lookback = 0 /\ e.minSwingPct = 0
           /\ UpExcursion(timeframe_data[e.interval], n) > 0
           /\ UpExcursion(timeframe_data[e.interval], n)
                  = DownExcursion(timeframe_data[e.interval], n)
           /\ PivotAt(e.interval, n, "high")
    /\ \E e \in DetectedEntries : \E n \in 2..Len(timeframe_data[e.interval]) :
           /\ e.lookback = 0 /\ e.minSwingPct = 0
           /\ UpExcursion(timeframe_data[e.interval], n) > 0
           /\ UpExcursion(timeframe_data[e.interval], n)
                  < DownExcursion(timeframe_data[e.interval], n)
           /\ PivotAt(e.interval, n, "low")


\* candle n (1-based) qualifies as a pivot of the given type before the swing
\* test, and not as one of the other type when the lookback is positive
Candidate(candles, n, L, type) ==
    IF L = 0 THEN StatedTypeAtZero(candles, n) = type
    ELSE IF type = "high"
         THEN ExceedsPredecessors(candles, n, L) /\ ~BelowPredecessors(candles, n, L)
         ELSE BelowPredecessors(candles, n, L) /\ ~ExceedsPredecessors(candles, n, L)

\* the candles of the lookback window of candle n: its L predecessors, or the
\* single previous candle at lookback 0
LookbackWindow(n, L) == {j \in 1..(IF L = 0 THEN 1 ELSE L) : n - j >= 1}

\* the value of a compared candle that the swing of a pivot is measured
\* against: its close in close mode, else the opposite extreme, the low for a
\* high pivot and the high for a low pivot
SwingValue(candle, type) ==
    IF main_config.pivot_detection_mode = "close" THEN candle.close
    ELSE IF type = "high" THEN candle.low ELSE candle.high

\* the price of a pivot of the given type at a candle
PivotPrice(candle, type) == ComparableValue(candle, type)

NoPrimaryConfigured ==
    \A n \in 1..Len(multi_pivot_config.timeframes) :
        multi_pivot_config.timeframes[n].role # "primary"

\* C29: without a primary timeframe the run ends in its setup with an error:
\* the loop never starts, no funding is applied, no window is created, no trade
\* is opened and the capital is the one before the run.
C29_NoPrimaryAborts ==
    NoPrimaryConfigured =>
        /\ pc \in {"setup", "error"}
        /\ i = 0 /\ last_tick = None
        /\ funding_calls = <<>> /\ applied_funding_rates = {}
        /\ pending_windows = <<>> /\ total_signals = 0
        /\ open_trades = <<>> /\ all_trades = <<>>
        /\ capital = 0
        /\ log = <<>>

\* a run without primary timeframe that has ended with the error, on a series
\* with pivots
C29_Witness ==
    /\ NoPrimaryConfigured
    /\ pc = "error"
    /\ DetectedPivots(one_minute_candles, TF1m,
                      PivotConfig(multi_pivot_config.timeframes[1])) # <<>>


\* the deadline of a pending window: primary pivot time + min(5 minutes,
\* bound configured for the primary timeframe)
Deadline(win) == win.primary_pivot.time + StatedWindowMs(PrimaryLoopMinutes)

\* C30: after the evaluation at a base tick no pending window has a deadline
\* earlier than that tick, and a window that executed, was dropped or expired
\* in an evaluation is not pending after it.
C30_NoWindowPastDeadline ==
    /\ last_tick # None =>
           \A w \in 1..Len(pending_windows) : Deadline(pending_windows[w]) >= last_tick
    /\ \A a \in 1..Len(log) :
           Terminal(log[a]) =>
               \A w \in 1..Len(pending_windows) :
                   pending_windows[w].created_time > log[a].time
                       \/ pending_windows[w].primary_pivot.time # log[a].pivot

\* ------------------------------------------------ execution and the loop
\* the evaluations of the last tick that opened a trade, as <<evaluation, trade>>
OpenedAtLastTick ==
    {o \in (1..Len(evals)) \X (1..Len(all_trades)) :
         evals[o[1]].met /\ all_trades[o[2]].pivot = evals[o[1]].primary}

\* max(primary pivot time, latest confirming pivot time) of an evaluation
StatedExecutionTime(e) ==
    SetMax({e.primary.time} \cup {e.confirmations[c].pivot.time :
                                      c \in 1..Len(e.confirmations)})

\* the closes the specification allows as entry price for an entry time: that
\* of a base candle at exactly that time, else that of a nearest base candle
\* within thirty seconds
StatedEntryPrices(entry_time) ==
    LET exact == {n \in 1..Len(one_minute_candles) :
                      one_minute_candles[n].time = entry_time}
        near == {n \in 1..Len(one_minute_candles) :
                     Abs(one_minute_candles[n].time - entry_time) <= ThirtySecMs}
        nearest == {n \in near : \A j \in near :
                        Abs(one_minute_candles[n].time - entry_time)
                            <= Abs(one_minute_candles[j].time - entry_time)}
    IN  {one_minute_candles[n].close : n \in IF exact # {} THEN exact ELSE nearest}

\* C31: a trade's entry time is max(primary pivot time, latest confirming pivot
\* time) + entry delay, and its entry price is the close of the base candle at
\* exactly that time, or of the nearest base candle within 30 seconds of it.
C31_EntryTimeAndPrice ==
    \A o \in OpenedAtLastTick :
        LET entry_time == StatedExecutionTime(evals[o[1]])
                              + trade_config.entry_delay_minutes * MinuteMs
        IN  /\ all_trades[o[2]].entry_time = entry_time
            /\ all_trades[o[2]].entry_price \in StatedEntryPrices(entry_time)

\* a trade opened with a delay after a confirming pivot later than the primary
\* pivot, at an entry time without a base candle, at a price that differs from
\* the pivot price
C31_Witness ==
    \E o \in OpenedAtLastTick :
        /\ trade_config.entry_delay_minutes > 0
        /\ StatedExecutionTime(evals[o[1]]) > evals[o[1]].primary.time
        /\ \A n \in 1..Len(one_minute_candles) :
               one_minute_candles[n].time # all_trades[o[2]].entry_time
        /\ all_trades[o[2]].entry_price # all_trades[o[2]].pivot.price

\* the exit the specification gives an open trade at a close price: "TP", "SL"
\* or "" (none)
StatedExit(t, close) ==
    IF t.type = "long"
    THEN (IF close >= t.take_profit_price THEN "TP"
          ELSE IF close <= t.stop_loss_price THEN "SL" ELSE "")
    ELSE (IF close <= t.take_profit_price THEN "TP"
          ELSE IF close >= t.stop_loss_price THEN "SL" ELSE "")

\* trade t after an update at candle c is as the specification says: closed
\* with the reason, the close and the time of c iff c's close meets a trigger,
\* else unchanged but for best_price
UpdatedAsStated(t, u, c) ==
    IF StatedExit(t, c.close) # ""
    THEN /\ u.status = "closed"
         /\ u.exit_reason = StatedExit(t, c.close)
         /\ u.exit_price = c.close
         /\ u.exit_time = c.time
    ELSE u = [t EXCEPT !.best_price = u.best_price]

\* C32: an update of an open trade closes it iff the tick's close meets a
\* trigger (Long: TP at close >= take profit, SL at close <= stop loss; Short:
\* TP at close <= take profit, SL at close >= stop loss), with the tick's close
\* and time as exit; otherwise the trade stays open and only best_price may
\* change.
C32_ClosesIffTriggered ==
    [][/\ pc = "minute" =>
              \A j \in 1..Len(open_trades) :
                  minute_candles_in_range[m].time >= all_trades[open_trades[j]].entry_time
                      => UpdatedAsStated(all_trades[open_trades[j]],
                                         all_trades'[open_trades[j]],
                                         minute_candles_in_range[m])
       /\ (pc = "candle" /\ i = Len(primary_candles)) =>
              \A j \in 1..Len(open_trades) :
                  all_trades[open_trades[j]].status = "open"
                      => UpdatedAsStated(all_trades[open_trades[j]],
                                         all_trades'[open_trades[j]],
                                         primary_candles[Len(primary_candles)])]_vars

\* a trade closed at the last tick by a close equal to its stop loss, while
\* another trade updated at that tick stays open
C32_Witness ==
    /\ \E k \in 1..Len(all_trades) :
           /\ all_trades[k].status = "closed"
           /\ all_trades[k].exit_reason = "SL"
           /\ all_trades[k].exit_price = all_trades[k].stop_loss_price
           /\ all_trades[k].exit_time = last_tick
    /\ \E j \in 1..Len(open_trades) :
           /\ all_trades[open_trades[j]].status = "open"
           /\ all_trades[open_trades[j]].entry_time < last_tick


\* the base candles of the stated sub-window of a primary candle:
\* primary.time - primary_interval < time <= primary.time
StatedSubWindow(primary_time) ==
    SelectSeq(one_minute_candles, LAMBDA c :
        /\ primary_time - IntervalMs(primary_tf_name) < c.time
        /\ c.time <= primary_time)

\* C33: base candles are fed to the trade and window logic in strictly ascending
\* order of time, none more than once, and the sub-window of each primary candle
\* is exactly the base candles with primary.time - primary_interval < time <=
\* primary.time
C33_AscendingFeedAndSubWindow ==
    /\ pc \in {"minute", "pivot"} =>
           minute_candles_in_range = StatedSubWindow(primary_candles[i + 1].time)
    /\ pc = "minute" =>
           /\ last_tick # None => minute_candles_in_range[m].time > last_tick
           /\ \A a, b \in 1..Len(minute_candles_in_range) :
                  a < b => minute_candles_in_range[a].time < minute_candles_in_range[b].time

\* a two minute primary candle whose sub-window holds two base candles, the
\* first already fed and the second about to be fed
C33_Witness ==
    /\ pc = "minute"
    /\ primary_tf_name = TF2m
    /\ Len(minute_candles_in_range) = 2
    /\ m = 2
    /\ last_tick = minute_candles_in_range[1].time
    /\ i > 0

\* pivot q has the signal of confirmation c and meets the window conditions of
\* evaluation e: within the search window of the primary pivot, not after the tick
Qualifies(q, e, c) ==
    /\ q.signal = c.pivot.signal
    /\ Abs(q.time - e.primary.time) <= e.search_window
    /\ q.time <= e.at

\* C34: in every evaluation each searched timeframe contributes at most one
\* confirmation, and that confirmation's pivot is the first pivot of the
\* timeframe's list that satisfies the signal and window conditions
C34_OneConfirmationPerTimeframe ==
    \A n \in 1..Len(evals) :
        LET e == evals[n]
        IN  /\ \A a, b \in 1..Len(e.confirmations) :
                   a # b => e.confirmations[a].timeframe # e.confirmations[b].timeframe
            /\ \A a \in 1..Len(e.confirmations) :
                   LET c == e.confirmations[a]
                       pivots == timeframe_pivots[c.timeframe]
                   IN  \E k \in 1..Len(pivots) :
                           /\ pivots[k] = c.pivot
                           /\ Qualifies(pivots[k], e, c)
                           /\ \A j \in 1..(k - 1) : ~Qualifies(pivots[j], e, c)

\* an evaluation in which a timeframe has a second, later pivot that also
\* satisfies the conditions and is not the one that confirms
C34_Witness ==
    \E n \in 1..Len(evals) : \E a \in 1..Len(evals[n].confirmations) :
        LET e == evals[n]
            c == e.confirmations[a]
            pivots == timeframe_pivots[c.timeframe]
        IN  \E k \in 1..Len(pivots) :
                /\ pivots[k] # c.pivot
                /\ pivots[k].time > c.pivot.time
                /\ Qualifies(pivots[k], e, c)

\* C35: every base candle is fed in the sub-window of exactly one primary
\* candle and none is skipped: the candle about to be fed is the first base
\* candle not fed so far, and when the run is over the last base candle was fed
C35_EveryBaseCandleFed ==
    /\ pc = "minute" =>
           \A n \in 1..Len(one_minute_candles) :
               one_minute_candles[n].time < minute_candles_in_range[m].time
                   => (last_tick # None /\ one_minute_candles[n].time <= last_tick)
    /\ pc = "done" =>
           last_tick = one_minute_candles[Len(one_minute_candles)].time

\* C36: entry pricing never looks ahead: for a trade opened at a tick, the
\* trade's entry time is not later than the tick, and its entry price is the
\* close of a base candle whose time is not later than the tick
C36_NoLookAhead ==
    \A o \in OpenedAtLastTick :
        LET e == evals[o[1]]
            t == all_trades[o[2]]
        IN  /\ t.entry_time <= e.at
            /\ \E n \in 1..Len(one_minute_candles) :
                   /\ one_minute_candles[n].time <= e.at
                   /\ Abs(one_minute_candles[n].time - t.entry_time) <= ThirtySecMs
                   /\ one_minute_candles[n].close = t.entry_price

\* the log entries of windows that met their requirements with a resolved price
\* and were blocked by the direction policy or the concurrency cap
BlockedEntries == {a \in 1..Len(log) : log[a].kind = "drop"}

\* C37: a window that meets its requirements with a resolved entry price but is
\* blocked by the direction policy or the concurrency cap is removed at that
\* tick without a trade, and is never retried: it is not pending afterwards, no
\* trade is ever opened from its pivot, and nothing more happens to it
C37_BlockedWindowDropped ==
    /\ \A n \in 1..Len(evals) :
           LET e == evals[n]
           IN  (e.met /\ e.price # None /\ e.price # 0
                    /\ \A t \in 1..Len(all_trades) : all_trades[t].pivot # e.primary)
                   => \E a \in BlockedEntries :
                          log[a].time = e.at /\ log[a].pivot = e.primary.time
    /\ \A a \in BlockedEntries :
           /\ \A w \in 1..Len(pending_windows) :
                  pending_windows[w].primary_pivot.time # log[a].pivot
           /\ \A t \in 1..Len(all_trades) : all_trades[t].pivot.time # log[a].pivot
           /\ \A b \in (a + 1)..Len(log) :
                  log[b].kind \in {"execute", "drop", "expire", "create"}
                      => log[b].pivot # log[a].pivot

\* a window was dropped because no slot was free, and a trade was closed at a
\* later tick that is still within five minutes of the dropped window's pivot
C37_Witness ==
    \E a \in BlockedEntries : \E b \in (a + 1)..Len(log) :
        /\ log[a].open >= MaxTrades(trade_config)
        /\ log[b].kind = "close"
        /\ log[b].time > log[a].time
        /\ log[b].time <= log[a].pivot + ProximityMinutes * MinuteMs
        /\ Len(open_trades) < MaxTrades(trade_config)
        /\ last_tick > log[b].time

\* the log entries of windows that opened a trade
ExecutedEntries == {a \in 1..Len(log) : log[a].kind = "execute"}

\* C40: confirmed_signals equals executed_trades equals the number of trades
\* ever opened, which is at most total_signals; a window that was confirmed
\* but blocked is not counted as confirmed
C40_SignalCounters ==
    /\ confirmed_signals = executed_trades
    /\ executed_trades = Len(all_trades)
    /\ Len(all_trades) <= total_signals
    /\ confirmed_signals = Cardinality(ExecutedEntries)

\* a run with a trade opened and a confirmed window blocked
C40_Witness ==
    /\ BlockedEntries # {}
    /\ confirmed_signals > 0
    /\ confirmed_signals + Cardinality(BlockedEntries) <= total_signals
    /\ pc = "done"

\* the funding cost inside the realized P&L of a closed trade
FundingTerm(t) ==
    IF trade_config.simulate_funding
    THEN (t.trade_size * trade_config.funding_rate
              * ((t.exit_time - t.entry_time) \div (8 * 60 * MinuteMs)))
             \div (100 * RateScale)
    ELSE 0

\* the tick at which the trade of a pivot was opened
OpenedTick(t) ==
    LET a == CHOOSE a \in ExecutedEntries : log[a].pivot = t.pivot.time
    IN  log[a].time

\* the periodic funding deductions made while trade t was open
DeductionsWhileOpen(t) ==
    {c \in 1..Len(funding_calls) :
        /\ funding_calls[c].deducted > 0
        /\ OpenedTick(t) < funding_calls[c].time
        /\ funding_calls[c].time <= t.exit_time}

\* C38: with funding enabled, the funding cost of a trade reduces the capital
\* once: a closed trade whose realized P&L has a funding cost was not also
\* charged by a periodic funding deduction while it was open
C38_FundingChargedOnce ==
    \A n \in 1..Len(all_trades) :
        (all_trades[n].status = "closed" /\ FundingTerm(all_trades[n]) > 0)
            => DeductionsWhileOpen(all_trades[n]) = {}

\* C39: every created window reaches a terminal outcome before the run ends:
\* in the final state no window is pending
C39_NoPendingAtEnd ==
    pc = "done" => pending_windows = <<>>

=========================================================================
